---- MODULE Spec2Model ----
(***************************************************************************)
(* Reconciliation engine of forensics/reconciliation.py, as it is reached  *)
(* through the POST /reconciliation/run handler of forensics/api.py.       *)
(*                                                                         *)
(* Dates are day numbers, amounts are integer cents (DecimalField with two *)
(* decimal places: exact equality), confidence scores are hundredths.      *)
(* Transaction rows are created one Transaction.objects.create() call at a *)
(* time, so created_at grows strictly with the id.                         *)
(***************************************************************************)
EXTENDS Integers, Sequences, FiniteSets, TLC

\* ---- bounds of the model ------------------------------------------------
MaxBank == 2
MaxBook == 2
MaxDate == 6
MaxAmount == 1
MaxRuns == 2
\* rows of each account when two calls run side by side
MaxConcurrent == 1

\* ---- program constants --------------------------------------------------
BANK_ACCOUNT == 1
BOOK_ACCOUNT == 2
\* a second bank account and a second ledger account
OTHER_BANK_ACCOUNT == 3
OTHER_BOOK_ACCOUNT == 4
TOLERANCE_DAYS == 5
CONFIDENCE_EXACT == 100
CONFIDENCE_FUZZY_DATE == 95
\* generate_fake_data: matches up to 3 days apart are FUZZY_DATE, others MANUAL
FAKE_FUZZY_DAYS == 3
CONFIDENCE_MANUAL == 85
\* account_id_bank = None, which `if account_id_bank:` treats like 0
NO_ACCOUNT == 0
PERCENT == 100
ROUND_DIGITS == 2
HTTP_OK == "200 OK"
HTTP_SERVER_ERROR == "500 Internal Server Error"

EXACT == "EXACT"
FUZZY_DATE == "FUZZY_DATE"
MANUAL == "MANUAL"
\* MATCH_TYPE_CHOICES: the stored code of the kind labelled 'Date Slippage'
DATE_SLIPPAGE == FUZZY_DATE
COMPLETED == "completed"
EMPTY_MESSAGE == "No transactions found in one or both accounts"

Dates == 0..MaxDate
Amounts == 0..MaxAmount

VARIABLES
    Transaction,          \* the Transaction table: id -> row
    ReconciliationMatch,  \* the ReconciliationMatch table, in creation order
    request,              \* JSON body of POST /reconciliation/run
    pc,                   \* position of the request handler
    bank_txs, book_txs,   \* the two loaded lists
    df_bank, df_book,     \* the two DataFrames; df_book is the candidate pool
    index,                \* number of df_bank rows iterrows() has yielded
    bank_row, candidates, match, date_diff,
    matches_created,
    result,               \* dict returned by run_auto_verification
    response,             \* HTTP response of the handler
    runs,                 \* calls of the handler so far, this one included
    report,               \* what the last reporting call returned
    other                 \* frame of a second run_auto_verification call

vars == <<Transaction, ReconciliationMatch, request, pc, bank_txs, book_txs,
          df_bank, df_book, index, bank_row, candidates, match, date_diff,
          matches_created, result, response, runs, report, other>>

\* ---- helpers --------------------------------------------------------------
Abs(x) == IF x < 0 THEN -x ELSE x

Range(s) == {s[i] : i \in DOMAIN s}

NoRow == [name |-> -1, id |-> 0, account_id |-> 0, date |-> 0, amount |-> 0,
          created_at |-> 0]

NoDict == [k \in {} |-> 0]

NoReport == [kind |-> "none"]

\* the frame of a call that has not been made
IdleFrame ==
    [pc |-> "idle", account_id_bank |-> NO_ACCOUNT, account_id_book |-> NO_ACCOUNT,
     bank_txs |-> <<>>, book_txs |-> <<>>, df_bank |-> <<>>,
     df_book |-> <<>>, index |-> 0, matches_created |-> 0, result |-> NoDict]

\* ---- models.py -------------------------------------------------------------
\* Transaction.Meta.ordering = ['-date', '-created_at']
OrderingAscending(r, s) ==
    \/ r.date < s.date
    \/ r.date = s.date /\ r.created_at < s.created_at

Ordering(r, s) ==
    \/ r.date > s.date
    \/ r.date = s.date /\ r.created_at > s.created_at

RECURSIVE OrderBy(_)
OrderBy(S) ==
    IF S = {} THEN <<>>
    ELSE LET first == CHOOSE r \in S : \A s \in S \ {r} : Ordering(r, s)
         IN  <<first>> \o OrderBy(S \ {first})

\* list(Transaction.objects.filter(account_id=...).values())
FilterAnyAccount(account_id) == OrderBy(Range(Transaction))

FilterUnmatched(account_id) ==
    OrderBy({Transaction[i] : i \in {j \in DOMAIN Transaction :
                /\ Transaction[j].account_id = account_id
                /\ \A n \in DOMAIN ReconciliationMatch :
                      /\ ReconciliationMatch[n].bank_transaction_id # j
                      /\ ReconciliationMatch[n].book_entry_id # j}})

Filter(account_id) ==
    OrderBy({Transaction[i] : i \in {j \in DOMAIN Transaction :
                                        Transaction[j].account_id = account_id}})

\* pd.DataFrame(rows): the rows labelled 0..n-1 in list order
DataFrameReversed(rows) ==
    [i \in 1..Len(rows) |->
        LET r == rows[Len(rows) + 1 - i]
        IN  [name |-> i - 1, id |-> r.id, account_id |-> r.account_id,
             date |-> r.date, amount |-> r.amount, created_at |-> r.created_at]]

DataFrame(rows) ==
    [i \in 1..Len(rows) |-> [name |-> i - 1, id |-> rows[i].id,
                             account_id |-> rows[i].account_id,
                             date |-> rows[i].date, amount |-> rows[i].amount,
                             created_at |-> rows[i].created_at]]

\* ---- reconciliation.py -----------------------------------------------------
\* lines 49-55: same amount, book date <= bank date, at most 5 days earlier
CandidatesNoUpperDate(df, row) ==
    LET Pass(k) == /\ k.amount = row.amount
                   /\ k.date >= row.date - TOLERANCE_DAYS
    IN  SelectSeq(df, Pass)

CandidatesStrictWindow(df, row) ==
    LET Pass(k) == /\ k.amount = row.amount
                   /\ k.date <= row.date
                   /\ k.date > row.date - TOLERANCE_DAYS
    IN  SelectSeq(df, Pass)

Candidates(df, row) ==
    LET Pass(k) == /\ k.amount = row.amount
                   /\ k.date <= row.date
                   /\ k.date >= row.date - TOLERANCE_DAYS
    IN  SelectSeq(df, Pass)

\* line 59: candidates.iloc[0]
IlocSmallestId(cands) ==
    CHOOSE k \in Range(cands) : \A o \in Range(cands) : k.id <= o.id

Iloc0(cands) == cands[1]

\* lines 62-68
MatchTypeAlwaysExact(diff) == EXACT

MatchType(diff) == IF diff = 0 THEN EXACT ELSE FUZZY_DATE

Confidence(diff) ==
    IF diff = 0 THEN CONFIDENCE_EXACT ELSE CONFIDENCE_FUZZY_DATE

\* lines 70-75: ReconciliationMatch.objects.create(...)
NewMatchAccountId(row, m, diff) ==
    [bank_transaction_id |-> row.account_id, book_entry_id |-> m.id,
     match_type |-> MatchType(diff), confidence_score |-> Confidence(diff)]

NewMatch(row, m, diff) ==
    [bank_transaction_id |-> row.id, book_entry_id |-> m.id,
     match_type |-> MatchType(diff), confidence_score |-> Confidence(diff)]

\* lines 70-75: ReconciliationMatch.objects.create inserts one new record
CreateAfterDelete(table, row) ==
    LET Others(m) == m.bank_transaction_id # row.bank_transaction_id
    IN  Append(SelectSeq(table, Others), row)

Create(table, row) == Append(table, row)

\* line 80: df_book.drop(match.name)
DropNothing(df, name) == df

Drop(df, name) ==
    LET Keep(k) == k.name # name
    IN  SelectSeq(df, Keep)

\* lines 47-80 as one computation: the matches the loop creates when it takes up
\* the rows of bank in their order against the pool
RECURSIVE RunOver(_, _)
RunOver(bank, pool) ==
    IF bank = <<>> THEN <<>>
    ELSE LET row == Head(bank)
             cands == Candidates(pool, row)
         IN  IF cands # <<>>
             THEN LET m == Iloc0(cands)
                  IN  <<NewMatch(row, m, Abs(row.date - m.date))>>
                          \o RunOver(Tail(bank), Drop(pool, m.name))
             ELSE RunOver(Tail(bank), pool)

\* lines 34-39
EmptyResult(bank, book) ==
    [matches_created |-> 0,
     bank_transactions |-> Len(bank),
     book_transactions |-> Len(book),
     message |-> EMPTY_MESSAGE]

\* lines 82-87; the float match_rate is kept as the fraction <<num, den>>
FinalResultBankCount(created, bank, book) ==
    [matches_created |-> Len(bank),
     bank_transactions |-> Len(bank),
     book_transactions |-> Len(book),
     match_rate |-> IF Len(bank) # 0 THEN <<created, Len(bank)>> ELSE <<0, 1>>]

FinalResult(created, bank, book) ==
    [matches_created |-> created,
     bank_transactions |-> Len(bank),
     book_transactions |-> Len(book),
     match_rate |-> IF Len(bank) # 0 THEN <<created, Len(bank)>> ELSE <<0, 1>>]

\* tx.bank_matches.exists() and tx.book_matches.exists()
BankMatchesExists(tx) ==
    \E n \in DOMAIN ReconciliationMatch :
        ReconciliationMatch[n].bank_transaction_id = tx.id

BookMatchesExists(tx) ==
    \E n \in DOMAIN ReconciliationMatch :
        ReconciliationMatch[n].book_entry_id = tx.id

\* lines 90-112
GetUnmatchedIgnoresSide(account_id, is_bank) ==
    LET Unmatched(tx) == ~BankMatchesExists(tx)
    IN  SelectSeq(Filter(account_id), Unmatched)

get_unmatched_transactions(account_id, is_bank) ==
    LET Unmatched(tx) == IF is_bank THEN ~BankMatchesExists(tx)
                                    ELSE ~BookMatchesExists(tx)
    IN  SelectSeq(Filter(account_id), Unmatched)

\* Account.is_internal_book of the accounts of the model
IsInternalBook(account_id) == account_id \in {BOOK_ACCOUNT, OTHER_BOOK_ACCOUNT}

\* lines 125-128: the rows the summary is about
SummaryRows(account_id_bank) ==
    IF account_id_bank # NO_ACCOUNT
    THEN Filter(account_id_bank)
    ELSE OrderBy({t \in Range(Transaction) : ~IsInternalBook(t.account_id)})

RECURSIVE Pow10(_)
Pow10(n) == IF n = 0 THEN 1 ELSE 10 * Pow10(n - 1)

\* round(num / den * 100, 2) in units of 10^-2: the nearest, the even one on a tie
RoundPercent(num, den) ==
    LET scaled == num * PERCENT * Pow10(ROUND_DIGITS)
        q == scaled \div den
        r == scaled % den
    IN  IF 2 * r < den THEN q
        ELSE IF 2 * r > den THEN q + 1
        ELSE IF q % 2 = 0 THEN q ELSE q + 1

\* line 131
MatchedCountOfMatchRows(rows) ==
    Cardinality({n \in DOMAIN ReconciliationMatch :
        \E i \in DOMAIN rows : ReconciliationMatch[n].bank_transaction_id = rows[i].id})

MatchedCount(rows) ==
    Cardinality({i \in DOMAIN rows : BankMatchesExists(rows[i])})

\* lines 115-141; match_rate_percent is kept in hundredths of a percent
calculate_reconciliation_summary(account_id_bank) ==
    LET bank == SummaryRows(account_id_bank)
        total_bank_txs == Len(bank)
        matched_count == MatchedCount(bank)
    IN  [total_transactions |-> total_bank_txs,
         matched |-> matched_count,
         unmatched |-> total_bank_txs - matched_count,
         match_rate_percent |-> IF total_bank_txs > 0
                                THEN RoundPercent(matched_count, total_bank_txs)
                                ELSE 0]

\* ---- api.py ------------------------------------------------------------------
\* ReconciliationRunSchema: the declared fields of the body, anything else dropped
ReconciliationRunSchema(body) ==
    [bank_account_id |-> body.bank_account_id,
     book_account_id |-> body.book_account_id]

\* ReconciliationResultSchema: four required fields, message optional
ReconciliationResultSchema(d) ==
    {"matches_created", "bank_transactions", "book_transactions", "match_rate"}
        \subseteq DOMAIN d

\* ---- ledger_integration.py ----------------------------------------------------
\* dict.get(key, default)
Get(d, key, default) == IF key \in DOMAIN d THEN d[key] ELSE default

\* line 161: the arguments run_auto_verification is called with, bank side first
LedgerRunArgsSwapped(ledger_account_id, bank_account_id) ==
    <<ledger_account_id, bank_account_id>>

LedgerRunArgs(ledger_account_id, bank_account_id) ==
    <<bank_account_id, ledger_account_id>>

\* lines 163-169
LedgerResult(ledger_account_id, bank_account_id, d) ==
    [status |-> COMPLETED,
     ledger_account_id |-> ledger_account_id,
     bank_account_id |-> bank_account_id,
     matches_found |-> Get(d, "matches_created", 0),
     match_rate |-> Get(d, "match_rate", 0)]

\* ---- initial states ----------------------------------------------------------
\* the rows of nb bank-statement lines followed by nk ledger lines
Table(nb, nk, d, a) ==
    [i \in 1..(nb + nk) |->
        [id |-> i,
         account_id |-> IF i <= nb THEN BANK_ACCOUNT ELSE BOOK_ACCOUNT,
         date |-> d[i], amount |-> a[i], created_at |-> i]]

InitTable ==
    \E nb \in 0..MaxBank, nk \in 0..MaxBook :
        \E d \in [1..(nb + nk) -> Dates], a \in [1..(nb + nk) -> Amounts] :
            Transaction = Table(nb, nk, d, a)

InitLocals ==
    /\ ReconciliationMatch = <<>>
    /\ pc = "request"
    /\ bank_txs = <<>>
    /\ book_txs = <<>>
    /\ df_bank = <<>>
    /\ df_book = <<>>
    /\ index = 0
    /\ bank_row = NoRow
    /\ candidates = <<>>
    /\ match = NoRow
    /\ date_diff = 0
    /\ matches_created = 0
    /\ result = NoDict
    /\ response = [status |-> "pending"]
    /\ runs = 1
    /\ report = NoReport

Init ==
    /\ InitTable
    /\ request = [bank_account_id |-> BANK_ACCOUNT, book_account_id |-> BOOK_ACCOUNT]
    /\ InitLocals
    /\ other = IdleFrame

\* the body may carry keys the schema does not declare, such as a tolerance override
InitApi ==
    /\ InitTable
    /\ \/ request = [bank_account_id |-> BANK_ACCOUNT, book_account_id |-> BOOK_ACCOUNT]
       \/ \E t \in 0..MaxDate :
             request = [bank_account_id |-> BANK_ACCOUNT,
                        book_account_id |-> BOOK_ACCOUNT, tolerance_days |-> t]
    /\ InitLocals
    /\ other = IdleFrame

\* the accounts in the order they were created
Accounts == <<BANK_ACCOUNT, BOOK_ACCOUNT, OTHER_BANK_ACCOUNT, OTHER_BOOK_ACCOUNT>>

\* the account pairs a second call may be about: another pair altogether, another
\* bank account against the same ledger account, the same bank account against
\* another ledger account
OtherPairs ==
    {<<OTHER_BANK_ACCOUNT, OTHER_BOOK_ACCOUNT>>,
     <<OTHER_BANK_ACCOUNT, BOOK_ACCOUNT>>,
     <<BANK_ACCOUNT, OTHER_BOOK_ACCOUNT>>}

RECURSIVE RowsBefore(_, _)
RowsBefore(n, k) == IF k = 0 THEN 0 ELSE n[k] + RowsBefore(n, k - 1)

\* the rows of n[k] lines of the k-th account, account after account
TableOfAccounts(n, d, a) ==
    [i \in 1..RowsBefore(n, Len(Accounts)) |->
        [id |-> i,
         account_id |-> Accounts[CHOOSE k \in DOMAIN Accounts :
                                    RowsBefore(n, k - 1) < i /\ i <= RowsBefore(n, k)],
         date |-> d[i], amount |-> a[i], created_at |-> i]]

\* two calls about different account pairs are about to start
InitConcurrent ==
    /\ \E n \in [DOMAIN Accounts -> 0..MaxConcurrent] :
          \E d \in [1..RowsBefore(n, Len(Accounts)) -> Dates],
             a \in [1..RowsBefore(n, Len(Accounts)) -> Amounts] :
              Transaction = TableOfAccounts(n, d, a)
    /\ request = [bank_account_id |-> BANK_ACCOUNT, book_account_id |-> BOOK_ACCOUNT]
    /\ InitLocals
    /\ \E pair \in OtherPairs :
          other = [IdleFrame EXCEPT !.pc = "request",
                                    !.account_id_bank = pair[1],
                                    !.account_id_book = pair[2]]

\* generate_fake_data: the match record it stores for a bank and a book row
FakeMatch(b, k) ==
    LET diff == Abs(b.date - k.date)
    IN  [bank_transaction_id |-> b.id, book_entry_id |-> k.id,
         match_type |-> IF diff = 0 THEN EXACT
                        ELSE IF diff <= FAKE_FUZZY_DAYS THEN FUZZY_DATE ELSE MANUAL,
         confidence_score |-> IF diff = 0 THEN CONFIDENCE_EXACT
                              ELSE IF diff <= FAKE_FUZZY_DAYS
                                   THEN CONFIDENCE_FUZZY_DATE
                                   ELSE CONFIDENCE_MANUAL]

\* a run is about to start on a match store that is empty or holds one match
\* stored earlier for rows of the two accounts
InitStored ==
    /\ InitTable
    /\ request = [bank_account_id |-> BANK_ACCOUNT, book_account_id |-> BOOK_ACCOUNT]
    /\ \/ ReconciliationMatch = <<>>
       \/ \E b, k \in Range(Transaction) :
             /\ b.account_id = BANK_ACCOUNT
             /\ k.account_id = BOOK_ACCOUNT
             /\ ReconciliationMatch = <<FakeMatch(b, k)>>
    /\ pc = "request"
    /\ bank_txs = <<>>
    /\ book_txs = <<>>
    /\ df_bank = <<>>
    /\ df_book = <<>>
    /\ index = 0
    /\ bank_row = NoRow
    /\ candidates = <<>>
    /\ match = NoRow
    /\ date_diff = 0
    /\ matches_created = 0
    /\ result = NoDict
    /\ response = [status |-> "pending"]
    /\ runs = 1
    /\ report = NoReport
    /\ other = IdleFrame

\* reconcile_ledger_with_bank_statements is about to be called
InitLedger ==
    /\ InitTable
    /\ request = [ledger_account_id |-> BOOK_ACCOUNT, bank_account_id |-> BANK_ACCOUNT]
    /\ InitLocals
    /\ other = IdleFrame

\* ---- actions -----------------------------------------------------------------
\* api.py run_reconciliation calls run_auto_verification; lines 30-44 of it
Load ==
    /\ pc = "request"
    /\ LET payload == ReconciliationRunSchema(request)
           bank == Filter(payload.bank_account_id)
           book == Filter(payload.book_account_id)
       IN  /\ bank_txs' = bank
           /\ book_txs' = book
           /\ IF bank = <<>> \/ book = <<>>
              THEN /\ result' = EmptyResult(bank, book)
                   /\ pc' = "returned"
                   /\ UNCHANGED <<df_bank, df_book>>
              ELSE /\ df_bank' = DataFrame(bank)
                   /\ df_book' = DataFrame(book)
                   /\ pc' = "loop"
                   /\ UNCHANGED result
    /\ UNCHANGED <<Transaction, ReconciliationMatch, request, index, bank_row,
                   candidates, match, date_diff, matches_created, response,
                   runs, report, other>>

\* one pass of the loop body, lines 47-80
Iterate ==
    /\ pc = "loop"
    /\ index < Len(df_bank)
    /\ LET row == df_bank[index + 1]
           cands == Candidates(df_book, row)
       IN  /\ bank_row' = row
           /\ candidates' = cands
           /\ index' = index + 1
           /\ IF cands # <<>>
              THEN LET m == Iloc0(cands)
                       diff == Abs(row.date - m.date)
                   IN  /\ match' = m
                       /\ date_diff' = diff
                       /\ ReconciliationMatch' =
                              Create(ReconciliationMatch, NewMatch(row, m, diff))
                       /\ matches_created' = matches_created + 1
                       /\ df_book' = Drop(df_book, m.name)
              ELSE UNCHANGED <<match, date_diff, ReconciliationMatch,
                               matches_created, df_book>>
    /\ UNCHANGED <<Transaction, request, pc, bank_txs, book_txs, df_bank,
                   result, response, runs, report, other>>

\* lines 82-87
Return ==
    /\ pc = "loop"
    /\ index = Len(df_bank)
    /\ result' = FinalResult(matches_created, bank_txs, book_txs)
    /\ pc' = "returned"
    /\ UNCHANGED <<Transaction, ReconciliationMatch, request, bank_txs, book_txs,
                   df_bank, df_book, index, bank_row, candidates, match,
                   date_diff, matches_created, response, runs, report, other>>

\* api.py: the returned dict is validated against ReconciliationResultSchema
Respond ==
    /\ pc = "returned"
    /\ response' = IF ReconciliationResultSchema(result)
                   THEN [status |-> HTTP_OK, body |-> result]
                   ELSE [status |-> HTTP_SERVER_ERROR]
    /\ pc' = "responded"
    /\ UNCHANGED <<Transaction, ReconciliationMatch, request, bank_txs, book_txs,
                   df_bank, df_book, index, bank_row, candidates, match,
                   date_diff, matches_created, result, runs, report, other>>

\* the same request is sent again: a new call starts with fresh locals, the
\* tables are as the earlier calls left them
Rerun ==
    /\ pc = "responded"
    /\ runs < MaxRuns
    /\ runs' = runs + 1
    /\ pc' = "request"
    /\ bank_txs' = <<>>
    /\ book_txs' = <<>>
    /\ df_bank' = <<>>
    /\ df_book' = <<>>
    /\ index' = 0
    /\ bank_row' = NoRow
    /\ candidates' = <<>>
    /\ match' = NoRow
    /\ date_diff' = 0
    /\ matches_created' = 0
    /\ result' = NoDict
    /\ UNCHANGED <<Transaction, ReconciliationMatch, request, response, report,
                   other>>

\* api.py get_unmatched: GET /reconciliation/unmatched/{account_id}?is_bank=
GetUnmatched ==
    /\ pc \in {"request", "responded"}
    /\ report = NoReport
    /\ \E account_id \in {BANK_ACCOUNT, BOOK_ACCOUNT}, is_bank \in BOOLEAN :
          report' = [kind |-> "unmatched", account_id |-> account_id,
                     is_bank |-> is_bank,
                     value |-> get_unmatched_transactions(account_id, is_bank)]
    /\ UNCHANGED <<Transaction, ReconciliationMatch, request, pc, bank_txs,
                   book_txs, df_bank, df_book, index, bank_row, candidates, match,
                   date_diff, matches_created, result, response, runs, other>>

\* api.py get_reconciliation_stats: GET /reconciliation/stats?account_id=
GetStats ==
    /\ pc \in {"request", "responded"}
    /\ report = NoReport
    /\ \E account_id \in {NO_ACCOUNT, BANK_ACCOUNT, BOOK_ACCOUNT} :
          report' = [kind |-> "summary", account_id |-> account_id,
                     value |-> calculate_reconciliation_summary(account_id)]
    /\ UNCHANGED <<Transaction, ReconciliationMatch, request, pc, bank_txs,
                   book_txs, df_bank, df_book, index, bank_row, candidates, match,
                   date_diff, matches_created, result, response, runs, other>>

\* the candidate pool of the second call: its own DataFrame (line 42)
OtherPoolShared == df_book

OtherPool == other.df_book

\* the second call, lines 30-44
OtherLoad ==
    /\ other.pc = "request"
    /\ LET bank == Filter(other.account_id_bank)
           book == Filter(other.account_id_book)
       IN  other' = IF bank = <<>> \/ book = <<>>
                    THEN [other EXCEPT !.bank_txs = bank, !.book_txs = book,
                                       !.result = EmptyResult(bank, book),
                                       !.pc = "returned"]
                    ELSE [other EXCEPT !.bank_txs = bank, !.book_txs = book,
                                       !.df_bank = DataFrame(bank),
                                       !.df_book = DataFrame(book),
                                       !.pc = "loop"]
    /\ UNCHANGED <<Transaction, ReconciliationMatch, request, pc, bank_txs,
                   book_txs, df_bank, df_book, index, bank_row, candidates, match,
                   date_diff, matches_created, result, response, runs, report>>

\* the second call, one pass of the loop body, lines 47-80
OtherIterate ==
    /\ other.pc = "loop"
    /\ other.index < Len(other.df_bank)
    /\ LET row == other.df_bank[other.index + 1]
           cands == Candidates(OtherPool, row)
       IN  IF cands # <<>>
           THEN LET m == Iloc0(cands)
                    diff == Abs(row.date - m.date)
                IN  /\ ReconciliationMatch' =
                           Create(ReconciliationMatch, NewMatch(row, m, diff))
                    /\ other' = [other EXCEPT
                                    !.index = @ + 1,
                                    !.matches_created = @ + 1,
                                    !.df_book = Drop(OtherPool, m.name)]
           ELSE /\ other' = [other EXCEPT !.index = @ + 1]
                /\ UNCHANGED ReconciliationMatch
    /\ UNCHANGED <<Transaction, request, pc, bank_txs, book_txs, df_bank, df_book,
                   index, bank_row, candidates, match, date_diff, matches_created,
                   result, response, runs, report>>

\* the second call, lines 82-87
OtherReturn ==
    /\ other.pc = "loop"
    /\ other.index = Len(other.df_bank)
    /\ other' = [other EXCEPT
                    !.result = FinalResult(other.matches_created, other.bank_txs,
                                           other.book_txs),
                    !.pc = "returned"]
    /\ UNCHANGED <<Transaction, ReconciliationMatch, request, pc, bank_txs,
                   book_txs, df_bank, df_book, index, bank_row, candidates, match,
                   date_diff, matches_created, result, response, runs, report>>

\* reconcile_ledger_with_bank_statements calls run_auto_verification (line 161);
\* lines 30-44 of it
LedgerLoad ==
    /\ pc = "request"
    /\ LET args == LedgerRunArgs(request.ledger_account_id, request.bank_account_id)
           bank == Filter(args[1])
           book == Filter(args[2])
       IN  /\ bank_txs' = bank
           /\ book_txs' = book
           /\ IF bank = <<>> \/ book = <<>>
              THEN /\ result' = EmptyResult(bank, book)
                   /\ pc' = "returned"
                   /\ UNCHANGED <<df_bank, df_book>>
              ELSE /\ df_bank' = DataFrame(bank)
                   /\ df_book' = DataFrame(book)
                   /\ pc' = "loop"
                   /\ UNCHANGED result
    /\ UNCHANGED <<Transaction, ReconciliationMatch, request, index, bank_row,
                   candidates, match, date_diff, matches_created, response,
                   runs, report, other>>

\* ledger_integration.py lines 163-169: the dict the bridge returns
LedgerReturn ==
    /\ pc = "returned"
    /\ response' = LedgerResult(request.ledger_account_id, request.bank_account_id,
                                result)
    /\ pc' = "responded"
    /\ UNCHANGED <<Transaction, ReconciliationMatch, request, bank_txs, book_txs,
                   df_bank, df_book, index, bank_row, candidates, match,
                   date_diff, matches_created, result, runs, report, other>>

Next == Load \/ Iterate \/ Return \/ Respond

NextRerun == Load \/ Iterate \/ Return \/ Respond \/ Rerun

Spec == Init /\ [][Next]_vars

SpecApi == InitApi /\ [][Next]_vars

SpecRerun == Init /\ [][NextRerun]_vars

\* the handler is synchronous code: a step that can be taken is taken
SpecFair == Init /\ [][Next]_vars /\ WF_vars(Next)

\* runs of the handler, then one reporting call on the tables they left
NextReport ==
    \/ report = NoReport /\ Load
    \/ report = NoReport /\ Iterate
    \/ report = NoReport /\ Return
    \/ report = NoReport /\ Respond
    \/ report = NoReport /\ Rerun
    \/ GetUnmatched
    \/ GetStats

SpecReport == Init /\ [][NextReport]_vars

\* two calls of run_auto_verification, their steps interleaved in any order
NextConcurrent ==
    Load \/ Iterate \/ Return \/ OtherLoad \/ OtherIterate \/ OtherReturn

SpecConcurrent == InitConcurrent /\ [][NextConcurrent]_vars

\* one call of the ledger bridge
NextLedger == LedgerLoad \/ Iterate \/ Return \/ LedgerReturn

SpecLedger == InitLedger /\ [][NextLedger]_vars

\* one run on a store that may already hold a match
SpecStored == InitStored /\ [][Next]_vars

\* ---- properties --------------------------------------------------------------
\* the matches the current run has created: the newest matches_created rows
RunMatches ==
    SubSeq(ReconciliationMatch,
           Len(ReconciliationMatch) - matches_created + 1, Len(ReconciliationMatch))

BankOf(m) == Transaction[m.bank_transaction_id]
BookOf(m) == Transaction[m.book_entry_id]

\* b - k in days, for a bank row b and a book row k
DaysBefore(b, k) == b.date - k.date

\* the eligibility rule as the specification words it, for a window of t days
InWindow(b, k, t) ==
    /\ k.amount = b.amount
    /\ 0 <= DaysBefore(b, k)
    /\ DaysBefore(b, k) <= t

\* the pool as it was when bank_row was taken up, in its iteration order
PoolBefore ==
    LET In(k) == \/ k \in Range(df_book)
                 \/ candidates # <<>> /\ k = match
    IN  SelectSeq(DataFrame(book_txs), In)

Processed == pc # "request" /\ index > 0

\* the rows of the pool that were eligible for bank_row
EligibleBefore == {k \in Range(PoolBefore) : InWindow(bank_row, k, TOLERANCE_DAYS)}

PositionIn(seq, k) == CHOOSE i \in DOMAIN seq : seq[i] = k

\* C1: within one run no book entry is the book_entry of two of the run's matches
C1_PoolExclusive ==
    \A i, j \in DOMAIN RunMatches :
        i # j => RunMatches[i].book_entry_id # RunMatches[j].book_entry_id

\* C1 witness: a second match was made although the book entry of the first match
\* would also have been eligible for the second bank row
C1_Witness ==
    /\ matches_created = 2
    /\ index = 2
    /\ InWindow(bank_row, BookOf(RunMatches[1]), TOLERANCE_DAYS)
    /\ BookOf(RunMatches[1]).date >= match.date

\* C2: every match of the run pairs equal amounts, the book date on or before the
\* bank date, and at most TOLERANCE_DAYS days apart
C2_MatchesWithinWindow ==
    \A i \in DOMAIN RunMatches :
        LET b == BankOf(RunMatches[i])
            k == BookOf(RunMatches[i])
        IN  /\ b.amount = k.amount
            /\ k.date <= b.date
            /\ 0 <= b.date - k.date
            /\ b.date - k.date <= TOLERANCE_DAYS

\* C2 witness: a run made a match at the far edge of the window while a book entry
\* of the same amount dated after the bank row stayed in the pool
C2_Witness ==
    /\ pc = "returned"
    /\ \E i \in DOMAIN RunMatches :
          /\ BankOf(RunMatches[i]).date - BookOf(RunMatches[i]).date = TOLERANCE_DAYS
          /\ \E k \in Range(df_book) :
                /\ k.amount = BankOf(RunMatches[i]).amount
                /\ k.date > BankOf(RunMatches[i]).date

\* C3: the candidate chosen for a bank row is an eligible pool entry with the
\* smallest date difference to it, whatever the creation order of the book rows
C3_ClosestDateChosen ==
    (Processed /\ candidates # <<>>) =>
        /\ match \in EligibleBefore
        /\ \A k \in EligibleBefore :
              Abs(DaysBefore(bank_row, match)) <= Abs(DaysBefore(bank_row, k))

\* C3 witness: two eligible entries at different distances, the farther one created
\* after the closer one
C3_Witness ==
    /\ Processed /\ candidates # <<>>
    /\ \E k \in EligibleBefore :
          /\ DaysBefore(bank_row, k) > DaysBefore(bank_row, match)
          /\ k.id > match.id

\* C4: among the eligible entries at the smallest date difference the one that comes
\* first in the pool's iteration order is chosen
C4_FirstInPoolOnTies ==
    (Processed /\ candidates # <<>>) =>
        /\ match \in EligibleBefore
        /\ \A k \in EligibleBefore :
              (\A o \in EligibleBefore :
                   Abs(DaysBefore(bank_row, k)) <= Abs(DaysBefore(bank_row, o)))
              => PositionIn(PoolBefore, match) <= PositionIn(PoolBefore, k)

\* C4 witness: two eligible entries tie at the smallest difference and the one
\* chosen does not have the smallest id
C4_Witness ==
    /\ Processed /\ candidates # <<>>
    /\ \E k \in EligibleBefore :
          /\ k # match
          /\ DaysBefore(bank_row, k) = DaysBefore(bank_row, match)
          /\ k.id < match.id

\* C5: every match has a book entry and a kind EXACT or DATE_SLIPPAGE; EXACT exactly
\* when the dates are equal; confidence 1.0 for EXACT and 0.95 for DATE_SLIPPAGE
C5_KindAndConfidence ==
    \A i \in DOMAIN RunMatches :
        LET m == RunMatches[i]
        IN  /\ m.book_entry_id \in DOMAIN Transaction
            /\ m.match_type \in {EXACT, DATE_SLIPPAGE}
            /\ (m.match_type = EXACT) <=> (Abs(DaysBefore(BankOf(m), BookOf(m))) = 0)
            /\ m.match_type = EXACT => m.confidence_score = CONFIDENCE_EXACT
            /\ m.match_type = DATE_SLIPPAGE
                   => m.confidence_score = CONFIDENCE_FUZZY_DATE

\* C5 witness: one run made a match of each kind
C5_Witness ==
    /\ pc = "returned"
    /\ \E i, j \in DOMAIN RunMatches :
          /\ RunMatches[i].match_type = EXACT
          /\ RunMatches[i].confidence_score = CONFIDENCE_EXACT
          /\ RunMatches[j].match_type = DATE_SLIPPAGE
          /\ RunMatches[j].confidence_score = CONFIDENCE_FUZZY_DATE

\* the tolerance the caller asked for: the override of the body, 5 without one
RequestedTolerance ==
    IF "tolerance_days" \in DOMAIN request
    THEN request.tolerance_days ELSE TOLERANCE_DAYS

\* C6 as stated: a same-amount pool entry d days before the bank row is eligible
\* exactly when 0 <= d <= the tolerance the caller supplied
C6_CallerToleranceDecides ==
    Processed =>
        \A k \in Range(PoolBefore) :
            k \in Range(candidates) <=> InWindow(bank_row, k, RequestedTolerance)

\* C6 amended: the window is the fixed 5 days whatever tolerance the body carries;
\* a same-amount pool entry d days before the bank row is eligible exactly when
\* 0 <= d <= 5, and the handler passes only the two account ids to the engine
C6_FixedWindowDecides ==
    /\ DOMAIN ReconciliationRunSchema(request) = {"bank_account_id", "book_account_id"}
    /\ Processed =>
          \A k \in Range(PoolBefore) :
              k \in Range(candidates) <=> InWindow(bank_row, k, TOLERANCE_DAYS)

\* C6 witness: the body asks for a tolerance below 5 and an entry exactly 5 days
\* before the bank row is matched, while one dated after the bank row is refused
C6_Witness ==
    /\ Processed /\ candidates # <<>>
    /\ "tolerance_days" \in DOMAIN request
    /\ request.tolerance_days < DaysBefore(bank_row, match)
    /\ DaysBefore(bank_row, match) = TOLERANCE_DAYS
    /\ \E k \in Range(PoolBefore) :
          k.amount = bank_row.amount /\ DaysBefore(bank_row, k) < 0

EmptyInput == bank_txs = <<>> \/ book_txs = <<>>

\* C7: with an empty bank or book collection the run returns normally, also through
\* the request handler, with matches_created = 0, match_rate = 0 and a message
C7_EmptyInputReturnsZeroRate ==
    /\ (pc \in {"returned", "responded"} /\ EmptyInput) =>
          /\ result.matches_created = 0
          /\ "message" \in DOMAIN result
          /\ "match_rate" \in DOMAIN result
          /\ result.match_rate[1] = 0
    /\ (pc = "responded" /\ EmptyInput) => response.status = HTTP_OK

\* C8: a run creates at most min(bank_count, book_count) matches
C8_AtMostMinMatches ==
    pc # "request" =>
        /\ matches_created <= Len(bank_txs)
        /\ matches_created <= Len(book_txs)
        /\ Len(RunMatches) <= Len(bank_txs)
        /\ Len(RunMatches) <= Len(book_txs)
        /\ pc \in {"returned", "responded"} =>
              /\ result.matches_created <= result.bank_transactions
              /\ result.matches_created <= result.book_transactions

\* C8 witness: two bank rows were both eligible for the only book entry and the run
\* ended with one match
C8_Witness ==
    /\ pc = "returned"
    /\ Len(bank_txs) = 2 /\ Len(book_txs) = 1
    /\ result.matches_created = 1
    /\ \A i \in DOMAIN bank_txs : InWindow(bank_txs[i], book_txs[1], TOLERANCE_DAYS)

\* C9: within one run no bank transaction is the bank_transaction of two matches
C9_OneMatchPerBank ==
    \A i, j \in DOMAIN RunMatches :
        i # j => RunMatches[i].bank_transaction_id # RunMatches[j].bank_transaction_id

\* C9 witness: the run ended with two matches while a matched bank row still has
\* an eligible entry left in the pool
C9_Witness ==
    /\ pc = "returned"
    /\ \E i \in DOMAIN RunMatches :
          \E k \in Range(df_book) : InWindow(BankOf(RunMatches[i]), k, TOLERANCE_DAYS)

\* C10: the stats count the matches emitted and the two inputs, match_rate is
\* matches_created / bank_count (0 for no bank rows) and lies in [0, 1], and the
\* message is there only for empty input
C10_StatsOfRun ==
    pc \in {"returned", "responded"} =>
        /\ result.matches_created = Len(RunMatches)
        /\ result.bank_transactions = Len(bank_txs)
        /\ result.book_transactions = Len(book_txs)
        /\ "message" \in DOMAIN result => EmptyInput
        /\ "match_rate" \in DOMAIN result
        /\ IF Len(bank_txs) = 0
           THEN result.match_rate[1] = 0
           ELSE result.match_rate[1] * Len(bank_txs)
                    = result.matches_created * result.match_rate[2]
        /\ 0 <= result.match_rate[1]
        /\ result.match_rate[1] <= result.match_rate[2]

\* the matches the store held when the current run began
StoredBefore ==
    SubSeq(ReconciliationMatch, 1, Len(ReconciliationMatch) - matches_created)

\* C11: the number of match records a run adds to the store is the matches_created
\* it returns
C11_StoredEqualsCreated ==
    [][pc' # "request" =>
          /\ Len(ReconciliationMatch') - Len(ReconciliationMatch)
                 = matches_created' - matches_created
          /\ pc' = "returned" => result'.matches_created = matches_created']_vars

\* C11 witness: the test's case, one bank and one book row of equal amount and
\* date, returned matches_created = 1 with one stored match
C11_Witness ==
    /\ pc = "returned" /\ runs = 1
    /\ Len(bank_txs) = 1 /\ Len(book_txs) = 1
    /\ bank_txs[1].amount = book_txs[1].amount
    /\ bank_txs[1].date = book_txs[1].date
    /\ result.matches_created = 1
    /\ Len(ReconciliationMatch) = 1

\* C12: a second run over the same transactions makes the same matches in the same
\* order and returns the same stats as the first
C12_SecondRunSame ==
    (runs = 2 /\ pc = "returned") =>
        /\ RunMatches = StoredBefore
        /\ ReconciliationResultSchema(result) <=> response.status = HTTP_OK
        /\ response.status = HTTP_OK => response.body = result

\* C12 witness: the second run has returned after making a match of each kind
C12_Witness ==
    /\ runs = 2 /\ pc = "returned"
    /\ response.status = HTTP_OK
    /\ \E i, j \in DOMAIN RunMatches :
          RunMatches[i].match_type = EXACT /\ RunMatches[j].match_type = FUZZY_DATE

\* C13 as stated: the stored match records are unchanged by a run
C13_StoreUnchangedByRun ==
    [][ReconciliationMatch' = ReconciliationMatch]_vars

\* C13 amended: a call starts from fresh locals, reads the rows of the two accounts
\* from the Transaction table and writes to the match store itself, one record for
\* each match it makes; the Transaction table is never written
C13_RunReadsAndWritesStore ==
    [][/\ Transaction' = Transaction
       /\ pc' = "request" => matches_created' = 0 /\ df_book' = <<>> /\ index' = 0
       /\ (pc = "request" /\ pc' # "request") =>
             /\ Range(bank_txs') = {t \in Range(Transaction) :
                                       t.account_id = request.bank_account_id}
             /\ Range(book_txs') = {t \in Range(Transaction) :
                                       t.account_id = request.book_account_id}
       /\ ReconciliationMatch' # ReconciliationMatch =>
             /\ pc = "loop" /\ candidates' # <<>>
             /\ ReconciliationMatch' =
                   Append(ReconciliationMatch,
                          [bank_transaction_id |-> bank_row'.id,
                           book_entry_id |-> match'.id,
                           match_type |-> MatchType(date_diff'),
                           confidence_score |-> Confidence(date_diff')])]_vars

\* C13 witness: a second run has written its own records after those of the first
C13_Witness ==
    /\ runs = 2 /\ pc = "returned"
    /\ matches_created = 2
    /\ Len(ReconciliationMatch) = 4

\* C14: after two runs over unchanged data every pair matched by the first run is
\* stored twice, so its book entry and bank transaction are in two stored matches
C14_RerunDuplicates ==
    (runs = 2 /\ pc = "returned") =>
        \A i \in DOMAIN StoredBefore :
            Cardinality({j \in DOMAIN ReconciliationMatch :
                /\ ReconciliationMatch[j].bank_transaction_id
                       = StoredBefore[i].bank_transaction_id
                /\ ReconciliationMatch[j].book_entry_id
                       = StoredBefore[i].book_entry_id}) = 2

\* C14 witness: after the second run one book entry is the book_entry of two stored
\* matches
C14_Witness ==
    /\ runs = 2 /\ pc = "returned"
    /\ \E i, j \in DOMAIN ReconciliationMatch :
          /\ i # j
          /\ ReconciliationMatch[i].book_entry_id = ReconciliationMatch[j].book_entry_id
          /\ ReconciliationMatch[i].bank_transaction_id
                 = ReconciliationMatch[j].bank_transaction_id

\* the rows of an account that no stored match names on the given side
UnmatchedOnSide(account_id, is_bank) ==
    {t \in Range(Transaction) :
        /\ t.account_id = account_id
        /\ \A n \in DOMAIN ReconciliationMatch :
              IF is_bank THEN ReconciliationMatch[n].bank_transaction_id # t.id
                         ELSE ReconciliationMatch[n].book_entry_id # t.id}

\* C15: the unmatched query returns exactly the rows of the account that no stored
\* match names on the requested side, each once, in the order of the account's
\* transactions, and changes nothing
C15_UnmatchedQuery ==
    [][(report'.kind = "unmatched" /\ report' # report) =>
          LET v == report'.value
              input == Filter(report'.account_id)
          IN  /\ Range(v) = UnmatchedOnSide(report'.account_id, report'.is_bank)
              /\ Len(v) = Cardinality(Range(v))
              /\ \A i, j \in DOMAIN v :
                    i < j => PositionIn(input, v[i]) < PositionIn(input, v[j])
              /\ UNCHANGED <<Transaction, ReconciliationMatch, request, pc,
                             bank_txs, book_txs, df_bank, df_book, index, bank_row,
                             candidates, match, date_diff, matches_created, result,
                             response, runs, other>>]_vars

\* C15 witness: after a run the book-side query on the book account returned one
\* of its two rows, the other being matched
C15_Witness ==
    /\ report.kind = "unmatched"
    /\ report.account_id = BOOK_ACCOUNT /\ ~report.is_bank
    /\ Len(report.value) = 1
    /\ Len(book_txs) = 2
    /\ ReconciliationMatch # <<>>

MatchedInRun(b) ==
    \E i \in DOMAIN RunMatches : RunMatches[i].bank_transaction_id = b.id

\* C18: a bank row stays unmatched exactly when, as it is taken up, the pool holds
\* no entry of its amount dated within the window on or before it; otherwise a
\* match is emitted for it
C18_UnmatchedIffNoCandidate ==
    Processed =>
        /\ MatchedInRun(bank_row) <=> EligibleBefore # {}
        /\ EligibleBefore # {} =>
              ReconciliationMatch[Len(ReconciliationMatch)].bank_transaction_id
                  = bank_row.id

\* C18 witness: a bank row found no candidate although the pool held an entry of
\* its amount, six days before it, and a later bank row was matched
C18_Witness ==
    /\ pc = "returned"
    /\ Len(bank_txs) = 2
    /\ ~MatchedInRun(bank_txs[1])
    /\ MatchedInRun(bank_txs[2])
    /\ \E k \in Range(book_txs) :
          /\ k.amount = bank_txs[1].amount
          /\ DaysBefore(bank_txs[1], k) = TOLERANCE_DAYS + 1

\* C19: the run is one pass that ends: the bank rows are taken up one by one in the
\* order of the loaded list, the run returns after the last one, a row left
\* unmatched when it was taken up is never matched later, and the handler answers
C19_SinglePassTerminates ==
    /\ [][index' # index =>
             /\ pc = "loop"
             /\ index' = index + 1
             /\ bank_row'.id = bank_txs[index'].id]_vars
    /\ [][(pc = "loop" /\ pc' = "returned") => index = Len(bank_txs)]_vars
    /\ [][\A i \in 1..index :
             ~MatchedInRun(bank_txs[i]) =>
                 \A n \in DOMAIN ReconciliationMatch' :
                     ReconciliationMatch'[n].bank_transaction_id # bank_txs[i].id]_vars
    /\ <>(pc = "responded")

\* C19 witness: the first bank row found no candidate, the second was matched and
\* the run returned with the first still unmatched
C19_Witness ==
    /\ pc = "responded"
    /\ index = 2 /\ Len(bank_txs) = 2
    /\ ~MatchedInRun(bank_txs[1])
    /\ MatchedInRun(bank_txs[2])
    /\ bank_txs[1].amount = bank_txs[2].amount

\* the size of a largest pairing of bank rows with eligible book rows, each row
\* used at most once
RECURSIVE MaxPairing(_, _)
MaxPairing(B, K) ==
    IF B = {} \/ K = {} THEN 0
    ELSE LET b == CHOOSE x \in B : TRUE
             without == MaxPairing(B \ {b}, K)
             with == {1 + MaxPairing(B \ {b}, K \ {k}) :
                         k \in {x \in K : InWindow(b, x, TOLERANCE_DAYS)}}
             best == {without} \cup with
         IN  CHOOSE n \in best : \A o \in best : o <= n

\* the bank rows in the opposite order
Reverse(seq) == [i \in 1..Len(seq) |-> seq[Len(seq) + 1 - i]]

\* the two loaded lists of the table of nb bank and nk book rows with dates d and
\* amounts a
BankRowsOf(nb, nk, d, a) ==
    OrderBy({t \in Range(Table(nb, nk, d, a)) : t.account_id = BANK_ACCOUNT})
BookRowsOf(nb, nk, d, a) ==
    OrderBy({t \in Range(Table(nb, nk, d, a)) : t.account_id = BOOK_ACCOUNT})

\* C20 as stated: the run does not always reach a largest pairing, that is, the
\* statement in the table or some other statement within the bounds gives the run
\* fewer matches than a largest pairing has
C20_GreedyBelowMaximumExists ==
    \/ Len(RunOver(DataFrame(Filter(BANK_ACCOUNT)),
                   DataFrame(Filter(BOOK_ACCOUNT))))
           < MaxPairing(Range(Filter(BANK_ACCOUNT)),
                        Range(Filter(BOOK_ACCOUNT)))
    \/ \E nb \in 0..MaxBank, nk \in 0..MaxBook :
           \E d \in [1..(nb + nk) -> Dates], a \in [1..(nb + nk) -> Amounts] :
               LET bank == BankRowsOf(nb, nk, d, a)
                   book == BookRowsOf(nb, nk, d, a)
               IN  Len(RunOver(DataFrame(bank), DataFrame(book)))
                       < MaxPairing(Range(bank), Range(book))

\* C20 amended: the pass is greedy and depends on the order of the bank rows, but
\* in the order the code takes them up (latest date first, each taking the latest
\* eligible entry) a run creates as many matches as a largest pairing has; another
\* order creates at most as many
C20_GreedyReachesMaximum ==
    pc = "returned" =>
        /\ matches_created = MaxPairing(Range(bank_txs), Range(book_txs))
        /\ Len(RunOver(Reverse(DataFrame(bank_txs)), DataFrame(book_txs)))
               <= matches_created

\* C20 witness: the run matched both bank rows, and taking them up in the opposite
\* order would have matched only one
C20_Witness ==
    /\ pc = "returned"
    /\ matches_created = 2
    /\ Len(RunOver(Reverse(DataFrame(bank_txs)), DataFrame(book_txs))) = 1

\* the stored matches between the rows of one account pair, in creation order
MatchesOfPair(account_id_bank, account_id_book) ==
    LET OfPair(m) ==
            /\ Transaction[m.bank_transaction_id].account_id = account_id_bank
            /\ Transaction[m.book_entry_id].account_id = account_id_book
    IN  SelectSeq(ReconciliationMatch, OfPair)

\* the matches a call about the pair makes when nothing else runs
MatchesAlone(account_id_bank, account_id_book) ==
    RunOver(DataFrame(Filter(account_id_bank)), DataFrame(Filter(account_id_book)))

\* the dict a call about the pair returns when nothing else runs
ResultAlone(account_id_bank, account_id_book) ==
    LET bank == Filter(account_id_bank)
        book == Filter(account_id_book)
    IN  IF bank = <<>> \/ book = <<>>
        THEN EmptyResult(bank, book)
        ELSE FinalResult(Len(MatchesAlone(account_id_bank, account_id_book)),
                         bank, book)

IsPrefix(s, t) == Len(s) <= Len(t) /\ \A i \in DOMAIN s : s[i] = t[i]

TransactionsOf(ms) ==
    {ms[i].bank_transaction_id : i \in DOMAIN ms}
        \cup {ms[i].book_entry_id : i \in DOMAIN ms}

\* however the steps of the two calls interleave, each call has made a prefix of
\* the matches it makes alone, and once it has returned, all of them and the dict
\* it returns alone
EachAsAlone ==
    /\ IsPrefix(MatchesOfPair(BANK_ACCOUNT, BOOK_ACCOUNT),
                MatchesAlone(BANK_ACCOUNT, BOOK_ACCOUNT))
    /\ IsPrefix(MatchesOfPair(other.account_id_bank, other.account_id_book),
                MatchesAlone(other.account_id_bank, other.account_id_book))
    /\ Len(ReconciliationMatch)
           = Len(MatchesOfPair(BANK_ACCOUNT, BOOK_ACCOUNT))
               + Len(MatchesOfPair(other.account_id_bank, other.account_id_book))
    /\ pc = "returned" =>
           /\ MatchesOfPair(BANK_ACCOUNT, BOOK_ACCOUNT)
                  = MatchesAlone(BANK_ACCOUNT, BOOK_ACCOUNT)
           /\ result = ResultAlone(BANK_ACCOUNT, BOOK_ACCOUNT)
    /\ other.pc = "returned" =>
           /\ MatchesOfPair(other.account_id_bank, other.account_id_book)
                  = MatchesAlone(other.account_id_bank, other.account_id_book)
           /\ other.result
                  = ResultAlone(other.account_id_bank, other.account_id_book)

\* no transaction is in a match of the one call and in a match of the other
MatchesDisjoint ==
    TransactionsOf(MatchesOfPair(BANK_ACCOUNT, BOOK_ACCOUNT))
        \cap TransactionsOf(MatchesOfPair(other.account_id_bank,
                                          other.account_id_book)) = {}

\* C17 as stated: two calls about different account pairs, interleaved in any
\* order, each make the matches they make alone, and no transaction is in a match
\* of both
C17_DifferentPairsIndependent ==
    EachAsAlone /\ MatchesDisjoint

\* C17 amended: two calls about different account pairs, interleaved in any order,
\* each make the matches they make alone; no transaction is in a match of both
\* when the two pairs have no account in common
C17_DisjointPairsIndependent ==
    /\ EachAsAlone
    /\ {BANK_ACCOUNT, BOOK_ACCOUNT}
           \cap {other.account_id_bank, other.account_id_book} = {}
         => MatchesDisjoint

\* C17 witness: both calls are inside their loops and each has made its match, the
\* second call first; the pairs have no account in common
C17_Witness ==
    /\ pc = "loop" /\ index = 1 /\ matches_created = 1
    /\ other.pc = "loop" /\ other.index = 1 /\ other.matches_created = 1
    /\ other.account_id_bank = OTHER_BANK_ACCOUNT
    /\ other.account_id_book = OTHER_BOOK_ACCOUNT
    /\ Transaction[ReconciliationMatch[1].bank_transaction_id].account_id
           = OTHER_BANK_ACCOUNT

\* bank rows i and j of the run are both eligible for book row k, which is the one
\* book row eligible for either, and no other bank row is eligible for it
ShareOneBook(i, j, k) ==
    /\ InWindow(df_bank[i], k, TOLERANCE_DAYS)
    /\ InWindow(df_bank[j], k, TOLERANCE_DAYS)
    /\ \A o \in Range(book_txs) :
          o.id # k.id => /\ ~InWindow(df_bank[i], o, TOLERANCE_DAYS)
                         /\ ~InWindow(df_bank[j], o, TOLERANCE_DAYS)
    /\ \A h \in DOMAIN df_bank :
          h \notin {i, j} => ~InWindow(df_bank[h], k, TOLERANCE_DAYS)

\* C21: when two bank rows are eligible for the same single book row, the one taken
\* up first is matched to it; the later one finds no candidate and stays unmatched
C21_FirstProcessedWins ==
    \A i, j \in DOMAIN df_bank : \A k \in Range(book_txs) :
        (i < j /\ ShareOneBook(i, j, k)) =>
            /\ (pc = "loop" /\ index = j) => candidates = <<>>
            /\ index >= i =>
                   \E n \in DOMAIN RunMatches :
                       /\ RunMatches[n].bank_transaction_id = df_bank[i].id
                       /\ RunMatches[n].book_entry_id = k.id
            /\ ~MatchedInRun(df_bank[j])

\* C21 witness: the run returned after two bank rows of different dates, both
\* eligible for the one book row; the first is matched, the second is not
C21_Witness ==
    /\ pc = "returned"
    /\ Len(df_bank) = 2 /\ Len(book_txs) = 1
    /\ df_bank[1].date > df_bank[2].date
    /\ ShareOneBook(1, 2, book_txs[1])
    /\ MatchedInRun(df_bank[1])
    /\ ~MatchedInRun(df_bank[2])
    /\ candidates = <<>>

\* book row k is the book_entry of one of the run's matches
BookMatchedInRun(k) ==
    \E i \in DOMAIN RunMatches : RunMatches[i].book_entry_id = k.id

\* C22: when the run has returned, no bank row it left unmatched is eligible for a
\* book row it left in the pool
C22_NoEligiblePairLeft ==
    pc = "returned" =>
        /\ \A b \in Range(bank_txs), k \in Range(book_txs) :
              (~MatchedInRun(b) /\ ~BookMatchedInRun(k)) =>
                  ~InWindow(b, k, TOLERANCE_DAYS)
        /\ \A b \in Range(df_bank), k \in Range(df_book) :
              ~MatchedInRun(b) => ~InWindow(b, k, TOLERANCE_DAYS)

\* C22 witness: a run that made a match left a bank row and a pool row of the same
\* amount, the book date after the bank date
C22_Witness ==
    /\ pc = "returned"
    /\ matches_created = 1
    /\ \E b \in Range(df_bank), k \in Range(df_book) :
          /\ ~MatchedInRun(b)
          /\ k.amount = b.amount
          /\ k.date > b.date

\* C23: no step of a run changes the Transaction table, and every step leaves the
\* match records already stored as they were and in place: the store only grows
\* at its end
C23_AppendOnly ==
    [][/\ Transaction' = Transaction
       /\ IsPrefix(ReconciliationMatch, ReconciliationMatch')]_vars

\* C23 witness: a second run has added its record after the one the first run had
\* stored
C23_Witness ==
    /\ runs = 2 /\ pc = "returned"
    /\ matches_created = 1
    /\ Len(StoredBefore) = 1
    /\ StoredBefore[1] = ReconciliationMatch[2]

\* C24: whatever the match store held when the run began, the run makes the
\* matches, in the order, and returns the dict that the transactions alone
\* determine, the same as a run on an empty store
C24_StoreIndependent ==
    /\ pc # "request" =>
           IsPrefix(RunMatches, MatchesAlone(BANK_ACCOUNT, BOOK_ACCOUNT))
    /\ pc \in {"returned", "responded"} =>
           /\ RunMatches = MatchesAlone(BANK_ACCOUNT, BOOK_ACCOUNT)
           /\ result = ResultAlone(BANK_ACCOUNT, BOOK_ACCOUNT)

\* C24 witness: the store held a match of a book row to one bank row, and the run
\* matched that book row to another bank row
C24_Witness ==
    /\ pc = "returned"
    /\ Len(StoredBefore) = 1
    /\ matches_created >= 1
    /\ RunMatches[1].book_entry_id = StoredBefore[1].book_entry_id
    /\ RunMatches[1].bank_transaction_id # StoredBefore[1].bank_transaction_id

\* a reporting call was made after exactly one run from an empty store
AfterOneRun == runs = 1 /\ pc = "responded" /\ report # NoReport

\* C25: after one run from an empty store the summary of the bank account counts
\* matches_created matched rows, and the unmatched query returns the bank rows but
\* matches_created of them, and the book rows but matches_created of them
C25_ReportsAgreeWithRun ==
    AfterOneRun =>
        /\ (report.kind = "summary" /\ report.account_id = BANK_ACCOUNT) =>
               /\ report.value.matched = result.matches_created
               /\ report.value.total_transactions = result.bank_transactions
        /\ (report.kind = "unmatched" /\ report.account_id = BANK_ACCOUNT
                /\ report.is_bank) =>
               Len(report.value) = result.bank_transactions - result.matches_created
        /\ (report.kind = "unmatched" /\ report.account_id = BOOK_ACCOUNT
                /\ ~report.is_bank) =>
               Len(report.value) = result.book_transactions - result.matches_created

\* C25 witness: the run matched one of two book rows, and the unmatched query on
\* the book side returned the other
C25_Witness ==
    /\ AfterOneRun
    /\ report.kind = "unmatched" /\ report.account_id = BOOK_ACCOUNT
    /\ ~report.is_bank
    /\ result.matches_created = 1
    /\ result.book_transactions = 2
    /\ Len(report.value) = 1
    /\ ~BookMatchedInRun(report.value[1])

\* C26: after any runs, repeated ones included, the summary has
\* 0 <= matched <= total, matched + unmatched = total and a rate between 0 and 100
\* percent; for the bank side matched is the number of bank rows named by the
\* store, however many stored matches name each
C26_SummaryWithinBounds ==
    report.kind = "summary" =>
        LET v == report.value
        IN  /\ 0 <= v.matched
            /\ v.matched <= v.total_transactions
            /\ 0 <= v.unmatched
            /\ v.matched + v.unmatched = v.total_transactions
            /\ 0 <= v.match_rate_percent
            /\ v.match_rate_percent <= PERCENT * Pow10(ROUND_DIGITS)
            /\ report.account_id # BOOK_ACCOUNT =>
                   v.matched
                       = Cardinality({ReconciliationMatch[n].bank_transaction_id :
                                         n \in DOMAIN ReconciliationMatch})

\* C26 witness: after two runs four matches are stored for two bank rows, and the
\* summary reports matched = 2 of 2 and 100.00 percent
C26_Witness ==
    /\ report.kind = "summary"
    /\ runs = 2
    /\ Len(ReconciliationMatch) = 4
    /\ report.value.total_transactions = 2
    /\ report.value.matched = 2
    /\ report.value.unmatched = 0
    /\ report.value.match_rate_percent = PERCENT * Pow10(ROUND_DIGITS)

\* the table holds no row of the bank account or no row of the book account
EmptySide ==
    \/ \A t \in Range(Transaction) : t.account_id # request.bank_account_id
    \/ \A t \in Range(Transaction) : t.account_id # request.book_account_id

\* C27: a run for which the bank or the book account has no rows returns at once
\* with matches_created = 0 and leaves the match store as it was, empty
C27_EmptyInputStoresNothing ==
    (EmptySide /\ pc # "request") =>
        /\ ReconciliationMatch = <<>>
        /\ pc \in {"returned", "responded"}
        /\ index = 0
        /\ result.matches_created = 0

\* C27 witness: two bank rows of one amount and date and no book row; the run
\* returned the message and stored nothing
C27_Witness ==
    /\ pc = "returned"
    /\ Len(bank_txs) = 2 /\ book_txs = <<>>
    /\ bank_txs[1].amount = bank_txs[2].amount
    /\ bank_txs[1].date = bank_txs[2].date
    /\ result.message = EMPTY_MESSAGE
    /\ ReconciliationMatch = <<>>

\* C28: the ledger bridge runs the matcher with the rows of the bank account as
\* the bank side and those of the ledger account as the book side, and returns
\* status 'completed', the two account ids, matches_found = matches_created and a
\* match_rate: the run's, or 0 when either account has no rows
C28_LedgerBridge ==
    /\ pc # "request" =>
           /\ Range(bank_txs) = {t \in Range(Transaction) :
                                     t.account_id = request.bank_account_id}
           /\ Range(book_txs) = {t \in Range(Transaction) :
                                     t.account_id = request.ledger_account_id}
    /\ pc = "responded" =>
           /\ DOMAIN response = {"status", "ledger_account_id", "bank_account_id",
                                  "matches_found", "match_rate"}
           /\ response.status = COMPLETED
           /\ response.ledger_account_id = request.ledger_account_id
           /\ response.bank_account_id = request.bank_account_id
           /\ response.matches_found = matches_created
           /\ response.matches_found = Len(ReconciliationMatch)
           /\ EmptyInput => response.match_rate = 0 /\ response.matches_found = 0
           /\ ~EmptyInput =>
                  response.match_rate = <<matches_created, Len(bank_txs)>>

\* C28 witness: the bridge returned for one bank row and no ledger row, with
\* matches_found = 0 and match_rate = 0, the run's dict having no match_rate
C28_Witness ==
    /\ pc = "responded"
    /\ Len(bank_txs) = 1 /\ book_txs = <<>>
    /\ "match_rate" \notin DOMAIN result
    /\ response.status = COMPLETED
    /\ response.matches_found = 0
    /\ response.match_rate = 0

\* the pool has been built: the run is in its loop or has returned from it
PoolBuilt == pc = "loop" \/ (pc \in {"returned", "responded"} /\ ~EmptyInput)

\* C29: after each bank row the pool and the matches made so far add up to the
\* book rows supplied, the pool holds only supplied book rows, in their order, and
\* a book row is missing from the pool exactly when the run has matched it
C29_PoolConsumedByMatching ==
    PoolBuilt =>
        /\ Len(df_book) + matches_created = Len(book_txs)
        /\ Range(df_book) \subseteq Range(DataFrame(book_txs))
        /\ \A i, j \in DOMAIN df_book : i < j => df_book[i].name < df_book[j].name
        /\ \A k \in Range(book_txs) :
              (\A p \in Range(df_book) : p.id # k.id) <=> BookMatchedInRun(k)

\* C29 witness: inside the loop, after the first bank row took one of two book
\* rows, the pool holds the other one
C29_Witness ==
    /\ pc = "loop"
    /\ index = 1 /\ Len(df_bank) = 2
    /\ matches_created = 1
    /\ Len(book_txs) = 2
    /\ Len(df_book) = 1
    /\ df_book[1].id # match.id
    /\ InWindow(bank_row, df_book[1], TOLERANCE_DAYS)

====
